---- MODULE Spec2Model ----
(***************************************************************************)
(* A model of helpers.py, the rating / goal-model / match-simulation       *)
(* engine of the league table simulator.                                   *)
(*                                                                         *)
(* Numbers.  The Python code computes with floats.  Here a number is a     *)
(* pair <<n, d>>:                                                          *)
(*   d > 0          the rational n/d in lowest terms (exact arithmetic),   *)
(*   <<0, 0>>       NaN,   <<1, 0>> +inf,   <<-1, 0>> -inf,                *)
(* with IEEE rules for the non-finite values (numpy and pandas divide by   *)
(* zero without raising).  Python's own "/" raises ZeroDivisionError; the  *)
(* operations that use it return a record whose status names the error.    *)
(* In the functions whose results are continuous in their inputs the      *)
(* rounding of finite results to the nearest double is not modelled, so a  *)
(* property that holds there holds of the code up to float tolerance;      *)
(* 10 ** x is computed in binary fixed point (exact when x is an integer)  *)
(* and the expected score is kept to three decimal places (EPrec).         *)
(* compute_auto_elo is not continuous: it tests a float for equality with  *)
(* 0 and rounds floats to integers.  It is computed in binary floating     *)
(* point with the 53-bit significand of a double and every operation       *)
(* rounded to nearest, ties to even, as the code computes it; its inputs   *)
(* are finite and far from overflow and underflow, so the exponent is not  *)
(* limited, and the sign of a zero, which no rating depends on, is not     *)
(* kept.                                                                   *)
(***************************************************************************)
EXTENDS Integers, Sequences, FiniteSets

VARIABLES
    pc,       \* "call" before the operation under study has run, "done" after
    op,       \* the name of the function being called
    args,     \* its arguments
    ret,      \* its result (a record with a status field)
    ratings,  \* the RatingTable: team -> Elo rating
    prev,     \* the RatingTable before the latest fixture
    last,     \* the latest fixture: teams, scoreline, outcome scores
    played    \* the number of fixtures applied so far

vars == <<pc, op, args, ret, ratings, prev, last, played>>

(***************************************************************************)
(* Bounds of the model                                                     *)
(***************************************************************************)
\* Input ratings range over 1500 +- 100 * EloSpan.
EloSpan == 4

\* Input probabilities (draw_prob, draw_bias) are the multiples of 1/DrawRes.
DrawRes == 4

\* Goal counts (given, or sampled from the Poisson distribution) are 0..MaxGoals.
MaxGoals == 3

\* Values of np.random.random() are the multiples of 1/CoinRes below 1.
CoinRes == 4

\* Standings and running counters hold 1..MaxTeams teams.
MaxTeams == 3

\* A simulated season applies at most MaxFixtures fixtures.
MaxFixtures == 3

\* Standings of teams with one and the same row hold up to MaxLeague teams.
MaxLeague == 9

(***************************************************************************)
(* Extended rational arithmetic                                            *)
(***************************************************************************)
Abs(n) == IF n < 0 THEN -n ELSE n

Sign(n) == IF n > 0 THEN 1 ELSE IF n < 0 THEN -1 ELSE 0

RECURSIVE Gcd(_, _)
Gcd(a, b) == IF b = 0 THEN a ELSE Gcd(b, a % b)

Norm(n, d) ==
    IF d = 0 THEN <<Sign(n), 0>>
    ELSE LET s == IF d < 0 THEN -1 ELSE 1
             g == Gcd(Abs(n), Abs(d))
         IN  <<(s * n) \div g, (s * d) \div g>>

I(n) == <<n, 1>>

NaN == <<0, 0>>

Inf == <<1, 0>>

IsNaN(x) == x[2] = 0 /\ x[1] = 0

IsInf(x) == x[2] = 0 /\ x[1] # 0

IsFinite(x) == x[2] > 0

Neg(x) == <<-x[1], x[2]>>

Add(x, y) ==
    IF IsNaN(x) \/ IsNaN(y) THEN NaN
    ELSE IF IsInf(x) /\ IsInf(y) THEN (IF x[1] = y[1] THEN x ELSE NaN)
    ELSE IF IsInf(x) THEN x
    ELSE IF IsInf(y) THEN y
    ELSE LET g == Gcd(x[2], y[2])
             l == (x[2] \div g) * y[2]
         IN  Norm(x[1] * (l \div x[2]) + y[1] * (l \div y[2]), l)

Sub(x, y) == Add(x, Neg(y))

Mul(x, y) ==
    IF IsNaN(x) \/ IsNaN(y) THEN NaN
    ELSE IF IsInf(x) \/ IsInf(y)
         THEN (IF x[1] = 0 \/ y[1] = 0 THEN NaN ELSE <<Sign(x[1]) * Sign(y[1]), 0>>)
    ELSE LET g1 == Gcd(Abs(x[1]), y[2])
             g2 == Gcd(Abs(y[1]), x[2])
         IN  Norm((x[1] \div g1) * (y[1] \div g2), (x[2] \div g2) * (y[2] \div g1))

\* IEEE division, as numpy and pandas do it: no exception, x/0 is inf or NaN.
Div(x, y) ==
    IF IsNaN(x) \/ IsNaN(y) THEN NaN
    ELSE IF IsInf(y) THEN (IF IsInf(x) THEN NaN ELSE I(0))
    ELSE IF y[1] = 0 THEN (IF x[1] = 0 THEN NaN ELSE <<Sign(x[1]), 0>>)
    ELSE IF IsInf(x) THEN <<Sign(x[1]) * Sign(y[1]), 0>>
    ELSE Mul(x, Norm(y[2], y[1]))

\* Comparisons; any comparison with NaN is false, as in IEEE.
Lt(x, y) ==
    IF IsNaN(x) \/ IsNaN(y) THEN FALSE
    ELSE IF IsInf(x) THEN x[1] < 0 /\ y # x
    ELSE IF IsInf(y) THEN y[1] > 0
    ELSE x[1] * y[2] < y[1] * x[2]

Le(x, y) == (~IsNaN(x) /\ x = y) \/ Lt(x, y)

RECURSIVE SumOver(_, _)
SumOver(f, S) ==
    IF S = {} THEN I(0)
    ELSE LET t == CHOOSE u \in S : TRUE
         IN  Add(f[t], SumOver(f, S \ {t}))

\* Python's round(): to the nearest integer, ties to the even one.
Round(x) ==
    LET fl == x[1] \div x[2]
        r2 == 2 * (x[1] - fl * x[2])
    IN  IF r2 < x[2] THEN fl
        ELSE IF r2 > x[2] THEN fl + 1
        ELSE IF fl % 2 = 0 THEN fl ELSE fl + 1

(***************************************************************************)
(* 10 ** x                                                                 *)
(***************************************************************************)
PowScale == 2^13

\* 10 ** (2 ** -i), i = 1..10, in units of 1/PowScale.
PowTable == <<25905, 14568, 10924, 9460, 8803, 8492, 8341, 8266, 8229, 8210>>

PowBits == Len(PowTable)

RECURSIVE Pow10Int(_)
Pow10Int(k) == IF k = 0 THEN 1 ELSE 10 * Pow10Int(k - 1)

\* The mantissa 10 ** (fb / 2^PowBits), product of the table entries of the bits
\* set in fb, from bit i on; in units of 1/PowScale.
RECURSIVE PowMant(_, _)
PowMant(fb, i) ==
    IF i > PowBits THEN PowScale
    ELSE LET rest == PowMant(fb, i + 1)
             bit  == (fb \div 2^(PowBits - i)) % 2
         IN  IF bit = 1 THEN (rest * PowTable[i] + PowScale \div 2) \div PowScale
             ELSE rest

\* x = q + f with q an integer and 0 <= f < 1.
PowQ(x) == x[1] \div x[2]

PowM(x) ==
    LET r == x[1] - PowQ(x) * x[2]
    IN  PowMant((r * 2^PowBits) \div x[2], 1)

\* 10 ** x for a finite x.  Python raises OverflowError when x is above
\* 308.25; the exponents reached here stay far below that.
Pow10(x) ==
    IF PowQ(x) >= 0 THEN Norm(Pow10Int(PowQ(x)) * PowM(x), PowScale)
    ELSE Norm(PowM(x), PowScale * Pow10Int(-PowQ(x)))

(***************************************************************************)
(* OutcomeProbability, EloUpdater, ResultClassifier                        *)
(***************************************************************************)
EPrec == 10^3

\* 1.0 / (1.0 + 10 ** ((elo_b - elo_a) / 400.0)), to EPrec places.
LogisticOf(x) ==
    LET q == PowQ(x)
        m == PowM(x)
    IN  IF q >= 0
        THEN LET den == PowScale + Pow10Int(q) * m
             IN  Norm((2 * EPrec * PowScale + den) \div (2 * den), EPrec)
        ELSE LET den == PowScale * Pow10Int(-q) + m
             IN  Norm(EPrec - (2 * EPrec * m + den) \div (2 * den), EPrec)

expected_score(elo_a, elo_b) == LogisticOf(Div(Sub(elo_b, elo_a), I(400)))

\* match_probs with the win share of A not scaled by the non-draw mass.
match_probs_unscaled(elo_a, elo_b, draw_prob) ==
    LET E_a    == LogisticOf(Div(Sub(elo_b, elo_a), I(400)))
        p_draw == draw_prob
        p_a    == E_a
        p_b    == Mul(Sub(I(1), p_draw), Sub(I(1), E_a))
        tot    == Add(Add(p_a, p_draw), p_b)
    IN  [p_a |-> Div(p_a, tot), p_draw |-> Div(p_draw, tot), p_b |-> Div(p_b, tot)]

match_probs(elo_a, elo_b, draw_prob) ==
    LET E_a    == LogisticOf(Div(Sub(elo_b, elo_a), I(400)))
        p_draw == draw_prob
        p_a    == Mul(Sub(I(1), p_draw), E_a)
        p_b    == Mul(Sub(I(1), p_draw), Sub(I(1), E_a))
        tot    == Add(Add(p_a, p_draw), p_b)
    IN  [p_a |-> Div(p_a, tot), p_draw |-> Div(p_draw, tot), p_b |-> Div(p_b, tot)]

\* update_elo with B's expected score taken to be A's.
update_elo_same_expectation(elo_a, elo_b, S_a, S_b, K) ==
    LET E_a == expected_score(elo_a, elo_b)
        E_b == E_a
    IN  [elo_a |-> Add(elo_a, Mul(K, Sub(S_a, E_a))),
         elo_b |-> Add(elo_b, Mul(K, Sub(S_b, E_b)))]

\* update_elo with B's rating moved by A's score instead of B's.
update_elo_same_score(elo_a, elo_b, S_a, S_b, K) ==
    LET E_a == expected_score(elo_a, elo_b)
        E_b == Sub(I(1), E_a)
    IN  [elo_a |-> Add(elo_a, Mul(K, Sub(S_a, E_a))),
         elo_b |-> Add(elo_b, Mul(K, Sub(S_a, E_b)))]

update_elo(elo_a, elo_b, S_a, S_b, K) ==
    LET E_a == expected_score(elo_a, elo_b)
        E_b == Sub(I(1), E_a)
    IN  [elo_a |-> Add(elo_a, Mul(K, Sub(S_a, E_a))),
         elo_b |-> Add(elo_b, Mul(K, Sub(S_b, E_b)))]

\* get_match_result with a win decided by >= instead of >.
get_match_result_nonstrict(goals_a, goals_b) ==
    IF goals_a >= goals_b THEN <<I(1), I(0)>>
    ELSE IF goals_a = goals_b THEN <<Norm(1, 2), Norm(1, 2)>>
    ELSE <<I(0), I(1)>>

get_match_result(goals_a, goals_b) ==
    IF goals_a > goals_b THEN <<I(1), I(0)>>
    ELSE IF goals_a = goals_b THEN <<Norm(1, 2), Norm(1, 2)>>
    ELSE <<I(0), I(1)>>

(***************************************************************************)
(* GoalSimulator                                                           *)
(***************************************************************************)
\* Python's None.
None == <<>>

\* exp_a and exp_b of simulate_goals.  The Elo adjustment is made only when
\* elo_a, elo_b and elo_factor are all given; its division is Python's, which
\* raises on a zero elo_factor.
expected_goals(team_a, team_b, base_lambda, attack, defense, elo_a, elo_b, elo_factor) ==
    LET exp_a == Mul(Mul(base_lambda, attack[team_a]), defense[team_b])
        exp_b == Mul(Mul(base_lambda, attack[team_b]), defense[team_a])
    IN  IF elo_a # None /\ elo_b # None /\ elo_factor # None
        THEN IF elo_factor = I(0)
             THEN [status |-> "ZeroDivisionError"]
             ELSE LET elo_mult == Pow10(Div(Sub(elo_a, elo_b), elo_factor))
                  IN  [status |-> "ok",
                       exp_a |-> Mul(exp_a, elo_mult),
                       exp_b |-> Div(exp_b, elo_mult)]
        ELSE [status |-> "ok", exp_a |-> exp_a, exp_b |-> exp_b]

\* np.random.poisson(lam) with lam negative, NaN or infinite, accepted.
poisson_accepts_clamped(lam) == TRUE

\* np.random.poisson(lam) raises ValueError for lam negative, NaN or too large
\* (infinite), and samples otherwise.
poisson_accepts(lam) == IsFinite(lam) /\ Le(I(0), lam)

\* The values a sample of Poisson(lam) can take, up to MaxGoals.
poisson_support(lam) == IF lam = I(0) THEN {0} ELSE 0..MaxGoals

Max(a, b) == IF a >= b THEN a ELSE b

\* The draw-bias step with the coin compared by <= instead of <.
draw_bias_step_inclusive(goals_a, goals_b, u, draw_bias) ==
    IF goals_a # goals_b /\ Le(u, draw_bias)
    THEN LET avg_goals == Round(Norm(goals_a + goals_b, 2))
         IN  <<Max(0, avg_goals), Max(0, avg_goals)>>
    ELSE <<goals_a, goals_b>>

\* The draw-bias step averaging the difference of the samples, without the floor.
draw_bias_step_difference(goals_a, goals_b, u, draw_bias) ==
    IF goals_a # goals_b /\ Lt(u, draw_bias)
    THEN LET avg_goals == Round(Norm(goals_a - goals_b, 2))
         IN  <<avg_goals, avg_goals>>
    ELSE <<goals_a, goals_b>>

\* Lines 160-162: u is the value of np.random.random(), in [0, 1).
draw_bias_step(goals_a, goals_b, u, draw_bias) ==
    IF goals_a # goals_b /\ Lt(u, draw_bias)
    THEN LET avg_goals == Round(Norm(goals_a + goals_b, 2))
         IN  <<Max(0, avg_goals), Max(0, avg_goals)>>
    ELSE <<goals_a, goals_b>>

\* simulate_goals, given the values the random source returns: the two Poisson
\* samples and the coin.
simulate_goals(a, raw_a, raw_b, u) ==
    LET e == expected_goals(a.team_a, a.team_b, a.base_lambda, a.attack, a.defense,
                            a.elo_a, a.elo_b, a.elo_factor)
    IN  IF e.status # "ok" THEN e
        ELSE IF ~poisson_accepts(e.exp_a) \/ ~poisson_accepts(e.exp_b)
        THEN [status |-> "ValueError", exp_a |-> e.exp_a, exp_b |-> e.exp_b]
        ELSE LET g == draw_bias_step(raw_a, raw_b, u, a.draw_bias)
             IN  [status |-> "ok", exp_a |-> e.exp_a, exp_b |-> e.exp_b,
                  raw_a |-> raw_a, raw_b |-> raw_b, u |-> u,
                  goals_a |-> g[1], goals_b |-> g[2]]

(***************************************************************************)
(* Binary floating point                                                   *)
(* compute_auto_elo compares a float with 0 (line 41), so the roundings of *)
(* the mean it subtracts are part of what it does.  Natural numbers of any *)
(* size are little-endian sequences of limbs below Limb without a leading  *)
(* zero limb; a float is s * m * 2^e with m of MantBits bits, or zero.     *)
(***************************************************************************)
LimbBits == 14

Limb == 2^LimbBits

RECURSIVE BigOf(_)
BigOf(n) == IF n = 0 THEN <<>> ELSE <<n % Limb>> \o BigOf(n \div Limb)

RECURSIVE BigTrim(_)
BigTrim(a) ==
    IF a # <<>> /\ a[Len(a)] = 0 THEN BigTrim(SubSeq(a, 1, Len(a) - 1)) ELSE a

LimbAt(a, i) == IF i <= Len(a) THEN a[i] ELSE 0

\* The value of a, for a within the integers.
RECURSIVE BigToInt(_)
BigToInt(a) == IF a = <<>> THEN 0 ELSE a[1] + Limb * BigToInt(Tail(a))

RECURSIVE BigAddFrom(_, _, _, _)
BigAddFrom(a, b, i, carry) ==
    IF i > Len(a) /\ i > Len(b)
    THEN IF carry = 0 THEN <<>> ELSE <<carry>>
    ELSE LET s == LimbAt(a, i) + LimbAt(b, i) + carry
         IN  <<s % Limb>> \o BigAddFrom(a, b, i + 1, s \div Limb)

BigAdd(a, b) == BigAddFrom(a, b, 1, 0)

RECURSIVE BigSubFrom(_, _, _, _)
BigSubFrom(a, b, i, borrow) ==
    IF i > Len(a) THEN <<>>
    ELSE LET s == a[i] - LimbAt(b, i) - borrow
         IN  IF s < 0 THEN <<s + Limb>> \o BigSubFrom(a, b, i + 1, 1)
             ELSE <<s>> \o BigSubFrom(a, b, i + 1, 0)

\* a - b for a >= b.
BigSub(a, b) == BigTrim(BigSubFrom(a, b, 1, 0))

RECURSIVE BigCmpAt(_, _, _)
BigCmpAt(a, b, i) ==
    IF i = 0 THEN 0
    ELSE IF a[i] < b[i] THEN -1
    ELSE IF a[i] > b[i] THEN 1
    ELSE BigCmpAt(a, b, i - 1)

\* -1, 0 or 1 as a < b, a = b or a > b.
BigCmp(a, b) ==
    IF Len(a) < Len(b) THEN -1
    ELSE IF Len(a) > Len(b) THEN 1
    ELSE BigCmpAt(a, b, Len(a))

RECURSIVE BigMulSmallFrom(_, _, _, _)
BigMulSmallFrom(a, k, i, carry) ==
    IF i > Len(a)
    THEN IF carry = 0 THEN <<>> ELSE <<carry>>
    ELSE LET s == a[i] * k + carry
         IN  <<s % Limb>> \o BigMulSmallFrom(a, k, i + 1, s \div Limb)

\* a * k for 0 <= k <= Limb.
BigMulSmall(a, k) == IF k = 0 THEN <<>> ELSE BigMulSmallFrom(a, k, 1, 0)

BigShlLimb(a) == IF a = <<>> THEN <<>> ELSE <<0>> \o a

RECURSIVE BigMulFrom(_, _, _)
BigMulFrom(a, b, j) ==
    IF j > Len(b) THEN <<>>
    ELSE BigAdd(BigMulSmall(a, b[j]), BigShlLimb(BigMulFrom(a, b, j + 1)))

BigMul(a, b) == BigMulFrom(a, b, 1)

RECURSIVE BigDivSmallAt(_, _, _)
BigDivSmallAt(a, k, i) ==
    IF i > Len(a) THEN [q |-> <<>>, r |-> 0]
    ELSE LET hi  == BigDivSmallAt(a, k, i + 1)
             cur == hi.r * Limb + a[i]
         IN  [q |-> <<cur \div k>> \o hi.q, r |-> cur % k]

\* Quotient and remainder of a by k, 0 < k <= Limb.
BigDivSmall(a, k) ==
    LET d == BigDivSmallAt(a, k, 1) IN [q |-> BigTrim(d.q), r |-> d.r]

\* a * 2^n and floor(a / 2^n).
BigShl(a, n) ==
    IF a = <<>> THEN <<>>
    ELSE [i \in 1..(n \div LimbBits) |-> 0] \o BigMulSmall(a, 2^(n % LimbBits))

BigShr(a, n) ==
    IF n \div LimbBits >= Len(a) THEN <<>>
    ELSE BigDivSmall(SubSeq(a, n \div LimbBits + 1, Len(a)), 2^(n % LimbBits)).q

RECURSIVE IntBitLen(_)
IntBitLen(n) == IF n = 0 THEN 0 ELSE 1 + IntBitLen(n \div 2)

BitLen(a) ==
    IF a = <<>> THEN 0 ELSE LimbBits * (Len(a) - 1) + IntBitLen(a[Len(a)])

\* Bit i of a, and whether the bits below bit n are all 0.
BigBit(a, i) == (LimbAt(a, i \div LimbBits + 1) \div 2^(i % LimbBits)) % 2

BigLowZero(a, n) ==
    /\ \A i \in 1..(n \div LimbBits) : LimbAt(a, i) = 0
    /\ LimbAt(a, n \div LimbBits + 1) % 2^(n % LimbBits) = 0

\* A double has a significand of 53 bits.
MantBits == 53

FZero == [s |-> 1, m |-> <<>>, e |-> 0]

\* s * m * 2^e (and, with sticky, a little more: less than one unit of m)
\* rounded to the nearest float, ties to the even significand.  With sticky,
\* m has at least MantBits + 2 bits, so that what is left out lies below the
\* bit that decides the rounding.
\* q, or q + 1 when the bits dropped from it are more than half a unit
\* (guard and rest) or half a unit with q odd.
RoundHalfEven(q, guard, rest) ==
    IF guard /\ (rest \/ BigBit(q, 0) = 1) THEN BigAdd(q, <<1>>) ELSE q

\* s * q * 2^e for q of MantBits bits, or of one more after rounding up.
Renormalized(s, q, e) ==
    IF BitLen(q) > MantBits THEN [s |-> s, m |-> BigShr(q, 1), e |-> e + 1]
    ELSE [s |-> s, m |-> q, e |-> e]

\* FRound for m of L bits.
FRoundBits(s, m, e, sticky, L) ==
    IF L = 0 THEN FZero
    ELSE IF L <= MantBits
    THEN [s |-> s, m |-> BigShl(m, MantBits - L), e |-> e - (MantBits - L)]
    ELSE Renormalized(s, RoundHalfEven(BigShr(m, L - MantBits),
                                       BigBit(m, L - MantBits - 1) = 1,
                                       sticky \/ ~BigLowZero(m, L - MantBits - 1)),
                      e + (L - MantBits))

FRound(s, m, e, sticky) == FRoundBits(s, m, e, sticky, BitLen(m))

\* The significand of x in units of 2^e, e <= x.e.
Aligned(x, e) == BigShl(x.m, x.e - e)

\* sx * mx + sy * my as a sign and a magnitude.
SignedSum(sx, mx, sy, my) ==
    IF sx = sy THEN [s |-> sx, m |-> BigAdd(mx, my)]
    ELSE IF BigCmp(mx, my) >= 0 THEN [s |-> sx, m |-> BigSub(mx, my)]
    ELSE [s |-> sy, m |-> BigSub(my, mx)]

\* The float nearest to v.s * v.m * 2^e.
FRoundSigned(v, e) == FRound(v.s, v.m, e, FALSE)

\* x + y of floats, neither zero, in units of 2^e.
FAddAt(x, y, e) ==
    FRoundSigned(SignedSum(x.s, Aligned(x, e), y.s, Aligned(y, e)), e)

\* x + y of floats.
FAdd(x, y) ==
    IF x.m = <<>> THEN y
    ELSE IF y.m = <<>> THEN x
    ELSE FAddAt(x, y, IF x.e < y.e THEN x.e ELSE y.e)

FNeg(x) == IF x.m = <<>> THEN x ELSE [x EXCEPT !.s = -x.s]

\* x * y of floats.
FMul(x, y) ==
    IF x.m = <<>> \/ y.m = <<>> THEN FZero
    ELSE FRound(x.s * y.s, BigMul(x.m, y.m), x.e + y.e, FALSE)

\* The largest q <= guess with q * b <= rem, and what it leaves of rem.
RECURSIVE QuotientDigit(_, _, _)
QuotientDigit(rem, b, guess) ==
    LET t == BigMulSmall(b, guess)
    IN  IF BigCmp(t, rem) > 0 THEN QuotientDigit(rem, b, guess - 1)
        ELSE [q |-> guess, r |-> BigSub(rem, t)]

\* Long division of a by b, from the leading limb of a down to limb i, with
\* q the limbs of the quotient so far and r the remainder so far: the next
\* limb of the quotient is guessed from the leading limbs of the remainder
\* and of b, and corrected downwards.
\* The guess for the next limb of the quotient of rem by b.
GuessDigit(rem, b) ==
    LET top == (LimbAt(rem, Len(b) + 1) * Limb + LimbAt(rem, Len(b))) \div b[Len(b)]
    IN  IF top < Limb THEN top ELSE Limb - 1

RECURSIVE BigDivModFrom(_, _, _, _, _)
RECURSIVE BigDivModStep(_, _, _, _, _)
BigDivModFrom(a, b, i, q, r) ==
    IF i = 0 THEN [q |-> q, r |-> r]
    ELSE BigDivModStep(a, b, i, q, BigTrim(<<a[i]>> \o r))

RECURSIVE BigDivModDigit(_, _, _, _, _)
BigDivModDigit(a, b, i, q, d) == BigDivModFrom(a, b, i - 1, <<d.q>> \o q, d.r)

\* The step of the long division at limb i, with rem the remainder so far
\* and limb i of a.
BigDivModStep(a, b, i, q, rem) ==
    IF BigCmp(rem, b) < 0
    THEN BigDivModFrom(a, b, i - 1, <<0>> \o q, rem)
    ELSE BigDivModDigit(a, b, i, q, QuotientDigit(rem, b, GuessDigit(rem, b)))

\* What the long division of a by b gives: the quotient, and whether nothing
\* remains.
BigDivModOf(a, b) ==
    LET d == BigDivModFrom(a, b, Len(a), <<>>, <<>>)
    IN  [q |-> BigTrim(d.q), exact |-> d.r = <<>>]

\* floor(a / b) and whether it is a / b, for b > 0; both are scaled by 2^up
\* to make the leading limb of b large, which keeps the guesses close.
BigDivModScaled(a, b, up) == BigDivModOf(BigShl(a, up), BigShl(b, up))

BigDivMod(a, b) == BigDivModScaled(a, b, LimbBits - IntBitLen(b[Len(b)]))

\* The float nearest to s * 2^e times the quotient d of a long division.
FRoundQuotient(s, d, e) == FRound(s, d.q, e, ~d.exact)

\* x / y of floats, y not zero: the quotient of the significands has more
\* than MantBits + 2 bits.
FDiv(x, y) ==
    IF x.m = <<>> THEN FZero
    ELSE FRoundQuotient(x.s * y.s, BigDivMod(BigShl(x.m, 4 * LimbBits), y.m),
                        x.e - y.e - 4 * LimbBits)

\* The float of an int, which it holds exactly.
IntToFloat(n) == FRound(Sign(n), BigOf(Abs(n)), 0, FALSE)

\* The float nearest to the finite rational x: the value of a literal, and
\* of the quotient of two ints.
float(x) == FDiv(IntToFloat(x[1]), IntToFloat(x[2]))

\* x / n of a float and a count n > 0.
FDivInt(x, n) == FDiv(x, IntToFloat(n))

\* floor(sqrt(n)) by Newton's iteration from r, r >= floor(sqrt(n)).
RECURSIVE IntSqrtFrom(_, _)
IntSqrtFrom(n, r) ==
    LET next == (r + n \div r) \div 2
    IN  IF next >= r THEN r ELSE IntSqrtFrom(n, next)

RECURSIVE BigSqrtFrom(_, _)
RECURSIVE BigSqrtNext(_, _, _)
BigSqrtFrom(a, r) == BigSqrtNext(a, r, BigShr(BigAdd(r, BigDivMod(a, r).q), 1))

\* One step of the iteration, from r to next.
BigSqrtNext(a, r, next) ==
    IF BigCmp(next, r) >= 0 THEN r ELSE BigSqrtFrom(a, next)

\* An integer above the root of lead * 4^half.
SqrtAbove(lead, half) == BigShl(BigOf(IntSqrtFrom(lead, lead) + 1), half)

\* floor(sqrt(a)) for a > 0 of L bits: the iteration starts above the root,
\* from the root of the leading two limbs' worth of bits.
BigSqrtBits(a, half) == BigSqrtFrom(a, SqrtAbove(BigToInt(BigShr(a, 2 * half)), half))

BigSqrt(a) ==
    BigSqrtBits(a, IF BitLen(a) <= 2 * LimbBits THEN 0
                   ELSE (BitLen(a) - 2 * LimbBits + 1) \div 2)

\* The float nearest to sqrt(a) * 2^e, r the floor of the root of a.
FRoundRoot(a, r, e) == FRound(1, r, e, BigMul(r, r) # a)

\* sqrt(m * 2^e) for e even.
FSqrtEven(m, e) == FRoundRoot(m, BigSqrt(m), e \div 2)

\* sqrt(x) of a float x >= 0: the significand is scaled to give a root of
\* more than MantBits + 2 bits, by an odd count when the exponent is odd.
FSqrt(x) ==
    IF x.m = <<>> THEN FZero
    ELSE FSqrtEven(BigShl(x.m, 4 * LimbBits + (x.e % 2)),
                   x.e - (x.e % 2) - 4 * LimbBits)

\* Python's round(x) of a float: the nearest integer, ties to the even one.
\* Python's ints have no width; the ratings of the model lie within the
\* integers of the checker.
round(x) ==
    IF x.e >= 0 THEN x.s * BigToInt(BigShl(x.m, x.e))
    ELSE x.s * BigToInt(RoundHalfEven(BigShr(x.m, -x.e),
                                      BigBit(x.m, -x.e - 1) = 1,
                                      ~BigLowZero(x.m, -x.e - 1)))

(***************************************************************************)
(* RatingInitializer                                                       *)
(* teams_data is a dict as Python keeps it: the sequence of its items      *)
(* <<name, row>> in the order of insertion, no name twice.  The floats of  *)
(* S are summed in that order.                                             *)
(***************************************************************************)
np_mean(f, S) == Div(SumOver(f, S), I(Cardinality(S)))

\* The raw skill score of one team (lines 30-36) for float weights, every
\* quotient, product and sum rounded to a float; M <= 0 counts as 1.
skill_score(d, alpha, beta, gamma) ==
    LET m      == IF d.M <= 0 THEN 1 ELSE d.M
        per_m  == <<Norm(d.Pts, m), Norm(d.GD, m), Norm(d.GF, m)>>
        weight == <<alpha, beta, gamma>>
        \* alpha * ppg, beta * gd_pg, gamma * gf_pg
        term   == [k \in 1..3 |-> FMul(weight[k], float(per_m[k]))]
    IN  FAdd(FAdd(term[1], term[2]), term[3])

\* S.values(): the scores of the teams in the order of teams_data.
skill_scores(teams_data, alpha, beta, gamma) ==
    [i \in DOMAIN teams_data |-> skill_score(teams_data[i][2], alpha, beta, gamma)]

\* numpy sums at most this many floats in one block.
PW_BLOCKSIZE == 128

\* res + arr[i] + arr[i + step] + ..., up to index last, from left to right.
RECURSIVE sum_strided(_, _, _, _, _)
sum_strided(arr, res, i, step, last_i) ==
    IF i > last_i THEN res
    ELSE sum_strided(arr, FAdd(res, arr[i]), i + step, step, last_i)

\* numpy's sum of the n floats of arr after index first: fewer than 8 from
\* left to right; up to a block, eight interleaved partial sums over the
\* whole groups of eight, added up as a tree, and then the rest one by one;
\* beyond a block, the sums of two halves, the first a multiple of eight.
\* The n floats of r after index first, n a power of two, added up as a
\* tree: ((r1 + r2) + (r3 + r4)) + ((r5 + r6) + (r7 + r8)) for n = 8.
RECURSIVE tree_sum(_, _, _)
tree_sum(r, first, n) ==
    IF n = 1 THEN r[first + 1]
    ELSE FAdd(tree_sum(r, first, n \div 2), tree_sum(r, first + n \div 2, n \div 2))

\* The eight partial sums of a block of arr after index first: partial sum
\* j adds every eighth float from j on, up to index first + whole.
partial_sums(arr, first, whole) ==
    [j \in 1..8 |-> sum_strided(arr, arr[first + j], first + 8 + j, 8, first + whole)]

RECURSIVE pairwise_sum(_, _, _)
pairwise_sum(arr, first, n) ==
    IF n < 8 THEN sum_strided(arr, FZero, first + 1, 1, first + n)
    ELSE IF n <= PW_BLOCKSIZE
    THEN sum_strided(arr, tree_sum(partial_sums(arr, first, n - (n % 8)), 0, 8),
                     first + n - (n % 8) + 1, 1, first + n)
    ELSE FAdd(pairwise_sum(arr, first, n \div 2 - ((n \div 2) % 8)),
              pairwise_sum(arr, first + n \div 2 - ((n \div 2) % 8),
                           n - (n \div 2 - ((n \div 2) % 8))))

\* np.add.reduce(arr): the sum of the whole array added to 0.0.
float_sum(arr) == FAdd(FZero, pairwise_sum(arr, 0, Len(arr)))

\* arr.mean(): the sum divided by the count.
float_mean(arr) == FDivInt(float_sum(arr), Len(arr))

\* arr.std(ddof=0): the root of the mean of the squared deviations from the
\* mean.
squared_deviations(arr, arrmean) ==
    [i \in DOMAIN arr |-> FMul(FAdd(arr[i], FNeg(arrmean)), FAdd(arr[i], FNeg(arrmean)))]

float_std(arr) == FSqrt(float_mean(squared_deviations(arr, float_mean(arr))))

\* std_S, with 1.0 in the place of 0.0 (lines 41-42).
nonzero_std(std_S) == IF std_S = FZero THEN IntToFloat(1) ELSE std_S

\* The rating of a team of score s (line 46, rounded as in line 48).
rating(s, mean_S, std_S, sigma) ==
    round(FAdd(IntToFloat(1500), FMul(sigma, FDiv(FAdd(s, FNeg(mean_S)), std_S))))

\* The ratings of the teams of teams_data with the scores S (lines 38-48).
ratings_of(teams_data, S, mean_S, std_S, sigma) ==
    [i \in DOMAIN teams_data |->
        <<teams_data[i][1], rating(S[i], mean_S, std_S, sigma)>>]

standardized(teams_data, S, sigma) ==
    ratings_of(teams_data, S, float_mean(S), nonzero_std(float_std(S)), sigma)

\* round(1500.0 + sigma * ((s - mean_S) / std_S)), with std_S the population
\* standard deviation and 1.0 in its place when it is 0.0 (lines 28-48); the
\* result is the dict of the ratings, its items in the order of teams_data.
compute_auto_elo(teams_data, alpha, beta, gamma, sigma) ==
    standardized(teams_data,
                 skill_scores(teams_data, float(alpha), float(beta), float(gamma)),
                 float(sigma))

(***************************************************************************)
(* League-wide rates                                                       *)
(***************************************************************************)
RECURSIVE IntSum(_, _)
IntSum(f, S) ==
    IF S = {} THEN 0
    ELSE LET t == CHOOSE u \in S : TRUE
         IN  f[t] + IntSum(f, S \ {t})

\* Python's "/" on two finite numbers: raises on a zero divisor.
py_div(x, y) ==
    IF y = I(0) THEN [status |-> "ZeroDivisionError"]
    ELSE [status |-> "ok", value |-> Div(x, y)]

calculate_base_goals(teams_data) ==
    LET teams         == DOMAIN teams_data
        total_goals   == I(IntSum([t \in teams |-> teams_data[t].GF], teams))
        total_matches == Norm(IntSum([t \in teams |-> teams_data[t].M], teams), 2)
        base_goals    == py_div(total_goals, total_matches)
    IN  IF base_goals.status # "ok" THEN base_goals
        ELSE [status |-> "ok", value |-> Div(base_goals.value, I(2))]

estimate_draw_prob(teams_data) ==
    LET teams         == DOMAIN teams_data
        total_draws   == Norm(IntSum([t \in teams |-> teams_data[t].D], teams), 2)
        total_matches == Norm(IntSum([t \in teams |-> teams_data[t].M], teams), 2)
    IN  IF Le(total_matches, I(0)) THEN Norm(1, 4)
        ELSE Div(total_draws, total_matches)

(***************************************************************************)
(* LeagueGoalModel                                                         *)
(***************************************************************************)
\* pandas' Series.mean(): NaN entries are skipped; NaN when nothing is left.
pd_mean(f, S) ==
    LET kept == {t \in S : ~IsNaN(f[t])}
    IN  IF kept = {} THEN NaN ELSE Div(SumOver(f, kept), I(Cardinality(kept)))

\* Lines 199-206 and 225-232: the rates over base_lambda, then each mapping
\* over its own mean.
strengths(rate, base, normalize) ==
    LET teams == DOMAIN rate
        raw   == [t \in teams |-> Div(rate[t], base)]
        mean  == np_mean(raw, teams)
    IN  IF normalize THEN [t \in teams |-> Div(raw[t], mean)] ELSE raw

\* The per-game columns are pandas divisions: x/0 is inf, 0/0 is NaN.
init_attack_defense(teams_data) ==
    LET teams == DOMAIN teams_data
        GFpg  == [t \in teams |-> Div(I(teams_data[t].GF), I(teams_data[t].M))]
        GApg  == [t \in teams |-> Div(I(teams_data[t].GA), I(teams_data[t].M))]
        base_lambda == pd_mean(GFpg, teams)
    IN  [base_lambda |-> base_lambda,
         attack      |-> strengths(GFpg, base_lambda, TRUE),
         defense     |-> strengths(GApg, base_lambda, TRUE)]

\* df.fillna(df.mean(numeric_only=True)): a NaN takes its column's mean.
fillna(col) == [t \in DOMAIN col |-> IF IsNaN(col[t]) THEN pd_mean(col, DOMAIN col) ELSE col[t]]

recompute_attack_defense(gf, ga, games, normalize) ==
    LET teams == DOMAIN gf
        M     == [t \in teams |-> IF games[t] = 0 THEN NaN ELSE I(games[t])]
        GFpg  == fillna([t \in teams |-> Div(I(gf[t]), M[t])])
        GApg  == fillna([t \in teams |-> Div(I(ga[t]), M[t])])
        base_lambda == pd_mean(GFpg, teams)
    IN  [base_lambda |-> base_lambda,
         attack      |-> strengths(GFpg, base_lambda, normalize),
         defense     |-> strengths(GApg, base_lambda, normalize)]

\* A team with no games has rate 0 (the guarded division of lines 238-239).
fast_recompute_attack_defense(gf, ga, games) ==
    LET teams == DOMAIN gf
        gfpg  == [t \in teams |-> IF games[t] > 0 THEN Norm(gf[t], games[t]) ELSE I(0)]
        gapg  == [t \in teams |-> IF games[t] > 0 THEN Norm(ga[t], games[t]) ELSE I(0)]
        base  == np_mean(gfpg, teams)
    IN  [base_lambda |-> base,
         attack      |-> strengths(gfpg, base, TRUE),
         defense     |-> strengths(gapg, base, TRUE)]

(***************************************************************************)
(* Inputs of the pure functions                                            *)
(***************************************************************************)
\* Ratings 100 points apart around 1500, and two that are not whole numbers.
EloInputs ==
    {I(1500 + 100 * k) : k \in -EloSpan..EloSpan} \cup {Norm(3021, 2), Norm(7564, 5)}

ProbInputs == {Norm(k, DrawRes) : k \in 0..DrawRes}

KInputs == {I(0), Norm(1, 2), I(20), I(32)}

ScoreInputs == {<<I(1), I(0)>>, <<Norm(1, 2), Norm(1, 2)>>, <<I(0), I(1)>>}

NoRet == [status |-> "none"]

SeasonIdle == ratings = <<>> /\ prev = <<>> /\ last = <<>> /\ played = 0

SeasonVars == <<ratings, prev, last, played>>

InitElo ==
    /\ pc = "call"
    /\ ret = NoRet
    /\ SeasonIdle
    /\ \/ /\ op = "match_probs"
          /\ args \in [elo_a : EloInputs, elo_b : EloInputs, draw_prob : ProbInputs]
       \/ /\ op = "update_elo"
          /\ args \in [elo_a : EloInputs, elo_b : EloInputs, S : ScoreInputs, K : KInputs]
       \/ /\ op = "get_match_result"
          /\ args \in [goals_a : 0..MaxGoals, goals_b : 0..MaxGoals]

CallMatchProbs ==
    /\ pc = "call" /\ op = "match_probs"
    /\ ret' = [status |-> "ok", p |-> match_probs(args.elo_a, args.elo_b, args.draw_prob)]
    /\ pc' = "done"
    /\ UNCHANGED <<op, args, SeasonVars>>

CallUpdateElo ==
    /\ pc = "call" /\ op = "update_elo"
    /\ ret' = [status |-> "ok",
               new |-> update_elo(args.elo_a, args.elo_b, args.S[1], args.S[2], args.K)]
    /\ pc' = "done"
    /\ UNCHANGED <<op, args, SeasonVars>>

CallGetMatchResult ==
    /\ pc = "call" /\ op = "get_match_result"
    /\ ret' = [status |-> "ok", S |-> get_match_result(args.goals_a, args.goals_b)]
    /\ pc' = "done"
    /\ UNCHANGED <<op, args, SeasonVars>>

NextElo == CallMatchProbs \/ CallUpdateElo \/ CallGetMatchResult

SpecElo == InitElo /\ [][NextElo]_vars

(***************************************************************************)
(* Properties of OutcomeProbability, EloUpdater and ResultClassifier       *)
(***************************************************************************)
InUnit(x) == Le(I(0), x) /\ Le(x, I(1))

Done(f) == pc = "done" /\ op = f

\* C1: match_probs returns three components, each in [0,1], that sum to 1, and
\* at equal ratings the win probabilities of A and B are equal.
C1_ProbsNormalized ==
    Done("match_probs") =>
        /\ InUnit(ret.p.p_a) /\ InUnit(ret.p.p_draw) /\ InUnit(ret.p.p_b)
        /\ Add(Add(ret.p.p_a, ret.p.p_draw), ret.p.p_b) = I(1)
        /\ (args.elo_a = args.elo_b => ret.p.p_a = ret.p.p_b)

C1_Witness ==
    /\ Done("match_probs")
    /\ args.elo_a = args.elo_b
    /\ args.draw_prob = Norm(1, 4)
    /\ ret.p.p_a = Norm(3, 8) /\ ret.p.p_b = Norm(3, 8) /\ ret.p.p_draw = Norm(1, 4)

\* A's gain and B's loss in the latest update_elo call.
GainA == Sub(ret.new.elo_a, args.elo_a)

LossB == Sub(args.elo_b, ret.new.elo_b)

AWon == args.S = <<I(1), I(0)>>

\* C4 as stated: after a win of A, A's gain equals B's loss at equal ratings and
\* only there; it does not when the two ratings differ.
C4_ZeroSumOnlyAtEqualRatings ==
    (Done("update_elo") /\ AWon /\ Lt(I(0), args.K)) =>
        (GainA = LossB <=> args.elo_a = args.elo_b)

\* C4 as amended: after a win of A, A's gain equals B's loss at all ratings,
\* equal or not, for any K.
C4_ZeroSumAtAllRatings ==
    (Done("update_elo") /\ AWon) => GainA = LossB

C4_Witness ==
    /\ Done("update_elo") /\ AWon
    /\ args.elo_a # args.elo_b
    /\ Lt(I(0), args.K)
    /\ Lt(I(0), GainA) /\ GainA = LossB

\* C5: get_match_result returns (1,0) exactly when A scored more, (0.5,0.5)
\* exactly when the goals are equal, (0,1) exactly when A scored fewer; the
\* result is always one of the three and its scores sum to 1.
C5_ResultClassified ==
    Done("get_match_result") =>
        /\ ret.S \in ScoreInputs
        /\ (ret.S = <<I(1), I(0)>> <=> args.goals_a > args.goals_b)
        /\ (ret.S = <<Norm(1, 2), Norm(1, 2)>> <=> args.goals_a = args.goals_b)
        /\ (ret.S = <<I(0), I(1)>> <=> args.goals_a < args.goals_b)
        /\ Add(ret.S[1], ret.S[2]) = I(1)

C5_Witness ==
    /\ Done("get_match_result")
    /\ args.goals_a = args.goals_b /\ args.goals_a > 0
    /\ ret.S = <<Norm(1, 2), Norm(1, 2)>>

(***************************************************************************)
(* GoalSimulator: inputs, the call, properties                             *)
(***************************************************************************)
\* Values of np.random.random(): a grid on [0, 1).
CoinInputs == {Norm(k, CoinRes) : k \in 0..(CoinRes - 1)}

Pair(x, y) == [t \in {"A", "B"} |-> IF t = "A" THEN x ELSE y]

\* Goal models: league-average, skewed, a team that never scores, and the
\* malformed ones (negative, NaN and infinite multipliers).
GoalModelInputs ==
    { [base_lambda |-> Norm(3, 2), attack |-> Pair(I(1), I(1)), defense |-> Pair(I(1), I(1))],
      [base_lambda |-> Norm(5, 4), attack |-> Pair(Norm(3, 2), Norm(1, 2)),
                                   defense |-> Pair(Norm(1, 2), Norm(3, 2))],
      [base_lambda |-> Norm(3, 2), attack |-> Pair(I(0), I(2)), defense |-> Pair(I(1), I(1))],
      [base_lambda |-> Norm(3, 2), attack |-> Pair(I(-1), I(1)), defense |-> Pair(I(1), I(1))],
      [base_lambda |-> I(-1), attack |-> Pair(I(1), I(1)), defense |-> Pair(I(1), I(1))],
      [base_lambda |-> NaN, attack |-> Pair(NaN, NaN), defense |-> Pair(NaN, NaN)],
      [base_lambda |-> Inf, attack |-> Pair(I(0), I(1)), defense |-> Pair(I(1), I(1))] }

EloCorrectionInputs ==
    { [elo_a |-> None, elo_b |-> None, elo_factor |-> None],
      [elo_a |-> I(1500), elo_b |-> I(1500), elo_factor |-> None],
      [elo_a |-> I(1500), elo_b |-> I(1500), elo_factor |-> I(800)],
      [elo_a |-> I(1700), elo_b |-> I(1500), elo_factor |-> I(800)],
      [elo_a |-> I(1500), elo_b |-> I(1900), elo_factor |-> I(400)],
      [elo_a |-> I(1500), elo_b |-> I(1600), elo_factor |-> I(0)] }

DrawBiasInputs == ProbInputs \cup {Norm(1, 10)}

InitGoals ==
    /\ pc = "call"
    /\ op = "simulate_goals"
    /\ ret = NoRet
    /\ SeasonIdle
    /\ \E gm \in GoalModelInputs, ec \in EloCorrectionInputs,
          db \in DrawBiasInputs, ta \in {"A", "B"} :
          args = [team_a |-> ta, team_b |-> IF ta = "A" THEN "B" ELSE "A",
                  base_lambda |-> gm.base_lambda, attack |-> gm.attack,
                  defense |-> gm.defense, elo_a |-> ec.elo_a, elo_b |-> ec.elo_b,
                  elo_factor |-> ec.elo_factor, draw_bias |-> db]

\* The exp_a, exp_b of the call in args.
ArgsExpectedGoals ==
    expected_goals(args.team_a, args.team_b, args.base_lambda, args.attack,
                   args.defense, args.elo_a, args.elo_b, args.elo_factor)

\* The random source: what the two Poisson draws and the coin can return.  A
\* draw that the code does not make has no value (None).
CallSimulateGoals ==
    /\ pc = "call" /\ op = "simulate_goals"
    /\ LET e == ArgsExpectedGoals
       IN  IF e.status = "ok" /\ poisson_accepts(e.exp_a) /\ poisson_accepts(e.exp_b)
           THEN \E raw_a \in poisson_support(e.exp_a), raw_b \in poisson_support(e.exp_b) :
                    \E u \in IF raw_a # raw_b THEN CoinInputs ELSE {None} :
                        ret' = simulate_goals(args, raw_a, raw_b, u)
           ELSE ret' = simulate_goals(args, None, None, None)
    /\ pc' = "done"
    /\ UNCHANGED <<op, args, SeasonVars>>

NextGoals == CallSimulateGoals

SpecGoals == InitGoals /\ [][NextGoals]_vars

\* C2: whenever simulate_goals returns a scoreline, both goal counts are
\* non-negative integers, with or without the draw-bias branch taken.
C2_GoalsNonNegative ==
    (Done("simulate_goals") /\ ret.status = "ok") =>
        ret.goals_a \in Nat /\ ret.goals_b \in Nat

\* The draw-bias branch was taken on a pair with the smaller sample first.
C2_Witness ==
    /\ Done("simulate_goals") /\ ret.status = "ok"
    /\ ret.raw_a < ret.raw_b
    /\ ret.goals_a = ret.goals_b
    /\ ret.goals_a > 0

\* C3: with draw_bias = 1 every unequal sampled pair is returned as a draw at
\* the rounded average of the samples; with draw_bias = 0 the sampled pair is
\* returned as it is; an equal sampled pair is returned as it is for any
\* draw_bias.
C3_DrawBias ==
    (Done("simulate_goals") /\ ret.status = "ok") =>
        /\ (args.draw_bias = I(1) /\ ret.raw_a # ret.raw_b) =>
              /\ ret.goals_a = ret.goals_b
              /\ Abs(2 * ret.goals_a - (ret.raw_a + ret.raw_b)) <= 1
              /\ ((ret.raw_a + ret.raw_b) % 2 = 0 =>
                      2 * ret.goals_a = ret.raw_a + ret.raw_b)
        /\ args.draw_bias = I(0) =>
              (ret.goals_a = ret.raw_a /\ ret.goals_b = ret.raw_b)
        /\ ret.raw_a = ret.raw_b =>
              (ret.goals_a = ret.raw_a /\ ret.goals_b = ret.raw_b)

\* draw_bias = 1 turned the sampled 3-0 into 2-2 (1.5 rounds to the even 2).
C3_Witness ==
    /\ Done("simulate_goals") /\ ret.status = "ok"
    /\ args.draw_bias = I(1)
    /\ ret.raw_a = 3 /\ ret.raw_b = 0
    /\ ret.goals_a = 2 /\ ret.goals_b = 2

\* x is negative, NaN or infinite.
Degenerate(x) == ~IsFinite(x) \/ Lt(x, I(0))

\* C9: when exp_a or exp_b is negative or not finite, simulate_goals ends in
\* an error and returns no scoreline.
C9_FailFast ==
    (/\ Done("simulate_goals")
     /\ ArgsExpectedGoals.status = "ok"
     /\ (Degenerate(ArgsExpectedGoals.exp_a) \/ Degenerate(ArgsExpectedGoals.exp_b)))
    => ret.status = "ValueError"

\* exp_a is fine, exp_b is negative, and the call ended in ValueError.
C9_Witness ==
    /\ Done("simulate_goals")
    /\ ArgsExpectedGoals.status = "ok"
    /\ Lt(I(0), ArgsExpectedGoals.exp_a)
    /\ Lt(ArgsExpectedGoals.exp_b, I(0))
    /\ ret.status = "ValueError"

(***************************************************************************)
(* RatingInitializer and LeagueGoalModel: inputs, the calls, properties    *)
(***************************************************************************)
\* One team's row of the standings: a team yet to play, a leader, a trailer,
\* a mid-table team, a team one game in, a team of goalless draws, and two
\* teams ten games in with one point each and different goals.
StandingInputs ==
    { [M |-> 0,  Pts |-> 0, GD |-> 0,   GF |-> 0, GA |-> 0,  D |-> 0],
      [M |-> 2,  Pts |-> 6, GD |-> 4,   GF |-> 5, GA |-> 1,  D |-> 0],
      [M |-> 2,  Pts |-> 1, GD |-> -4,  GF |-> 1, GA |-> 5,  D |-> 1],
      [M |-> 2,  Pts |-> 2, GD |-> 0,   GF |-> 2, GA |-> 2,  D |-> 2],
      [M |-> 1,  Pts |-> 3, GD |-> 2,   GF |-> 2, GA |-> 0,  D |-> 0],
      [M |-> 2,  Pts |-> 2, GD |-> 0,   GF |-> 0, GA |-> 0,  D |-> 2],
      [M |-> 10, Pts |-> 1, GD |-> -9,  GF |-> 1, GA |-> 10, D |-> 1],
      [M |-> 10, Pts |-> 1, GD |-> -10, GF |-> 2, GA |-> 12, D |-> 1] }

\* The names of the teams.
TeamNames == <<"A", "B", "C", "D", "E", "F", "G", "H", "I", "J", "K", "L">>

\* Standings of 1..MaxTeams teams, and of up to MaxLeague teams level with
\* each other.
TableInputs ==
    UNION { [{TeamNames[i] : i \in 1..n} -> StandingInputs] : n \in 1..MaxTeams }
      \cup { [t \in {TeamNames[i] : i \in 1..n} |-> r] :
                n \in (MaxTeams + 1)..MaxLeague, r \in StandingInputs }

\* The standings td as a dict filled in the order of TeamNames; the rows of
\* TableInputs come in every order.
ItemsOf(td) == [i \in 1..Cardinality(DOMAIN td) |-> <<TeamNames[i], td[TeamNames[i]]>>]

\* The values of a dict, in its order.
ValuesOf(items) == [i \in DOMAIN items |-> items[i][2]]

\* alpha, beta, gamma: the defaults, points only, all zero, goals only.
WeightInputs ==
    { <<I(1), Norm(4, 5), Norm(1, 5)>>, <<I(1), I(0), I(0)>>,
      <<I(0), I(0), I(0)>>, <<I(0), I(1), I(-1)>> }

SigmaInputs == {I(100), Norm(1, 2), I(0), I(-10)}

LeagueOps ==
    {"compute_auto_elo", "calculate_base_goals", "estimate_draw_prob",
     "init_attack_defense", "recompute_attack_defense", "fast_recompute_attack_defense"}

InitLeague ==
    /\ pc = "call"
    /\ ret = NoRet
    /\ SeasonIdle
    /\ op \in LeagueOps
    /\ \E td \in TableInputs :
          \/ /\ op = "compute_auto_elo"
             /\ \E w \in WeightInputs, sg \in SigmaInputs :
                   args = [teams_data |-> ItemsOf(td), alpha |-> w[1],
                           beta |-> w[2], gamma |-> w[3], sigma |-> sg]
          \/ /\ op \in {"calculate_base_goals", "estimate_draw_prob", "init_attack_defense"}
             /\ args = [teams_data |-> td]
          \/ /\ op \in {"recompute_attack_defense", "fast_recompute_attack_defense"}
             /\ \E nz \in (IF op = "recompute_attack_defense" THEN BOOLEAN ELSE {TRUE}) :
                   args = [gf    |-> [t \in DOMAIN td |-> td[t].GF],
                           ga    |-> [t \in DOMAIN td |-> td[t].GA],
                           games |-> [t \in DOMAIN td |-> td[t].M],
                           normalize |-> nz]

Return(f, r) ==
    /\ pc = "call" /\ op = f
    /\ ret' = r
    /\ pc' = "done"
    /\ UNCHANGED <<op, args, SeasonVars>>

CallComputeAutoElo ==
    Return("compute_auto_elo",
           [status |-> "ok",
            elo |-> compute_auto_elo(args.teams_data, args.alpha, args.beta,
                                     args.gamma, args.sigma)])

CallCalculateBaseGoals ==
    Return("calculate_base_goals", calculate_base_goals(args.teams_data))

CallEstimateDrawProb ==
    Return("estimate_draw_prob",
           [status |-> "ok", value |-> estimate_draw_prob(args.teams_data)])

CallInitAttackDefense ==
    Return("init_attack_defense",
           [status |-> "ok", model |-> init_attack_defense(args.teams_data)])

CallRecomputeAttackDefense ==
    Return("recompute_attack_defense",
           [status |-> "ok",
            model |-> recompute_attack_defense(args.gf, args.ga, args.games, args.normalize)])

CallFastRecomputeAttackDefense ==
    Return("fast_recompute_attack_defense",
           [status |-> "ok",
            model |-> fast_recompute_attack_defense(args.gf, args.ga, args.games)])

NextLeague ==
    \/ CallComputeAutoElo
    \/ CallCalculateBaseGoals
    \/ CallEstimateDrawProb
    \/ CallInitAttackDefense
    \/ CallRecomputeAttackDefense
    \/ CallFastRecomputeAttackDefense

SpecLeague == InitLeague /\ [][NextLeague]_vars

GoalModelOps ==
    {"init_attack_defense", "recompute_attack_defense", "fast_recompute_attack_defense"}

\* init_attack_defense and fast_recompute_attack_defense always normalize.
NormalizationRequested == op = "recompute_attack_defense" => args.normalize

\* C6: whenever normalization is requested, the attack values of the returned
\* goal model sum to the number of teams, and so do the defense values
\* (mean 1), for every input of at least one team.
C6_MeanOne ==
    (pc = "done" /\ op \in GoalModelOps /\ NormalizationRequested) =>
        LET teams == DOMAIN ret.model.attack
        IN  /\ SumOver(ret.model.attack, teams) = I(Cardinality(teams))
            /\ SumOver(ret.model.defense, teams) = I(Cardinality(teams))

\* C7: for standings with at least two teams whose stats differ, the ratings
\* of compute_auto_elo have a mean within 0.5 of 1500.
C7_MeanNear1500 ==
    (/\ Done("compute_auto_elo")
     /\ \E t, u \in DOMAIN args.teams_data :
           args.teams_data[t][2] # args.teams_data[u][2])
    => LET n == Len(ret.elo)
       IN  2 * Abs(IntSum(ValuesOf(ret.elo), 1..n) - 1500 * n) <= n

AllFinite(f) == \A t \in DOMAIN f : IsFinite(f[t])

\* The scores of the table are all the same float: their population standard
\* deviation is zero.
ZeroDeviation ==
    \A t, u \in DOMAIN args.teams_data :
        skill_score(args.teams_data[t][2], float(args.alpha), float(args.beta),
                    float(args.gamma))
          = skill_score(args.teams_data[u][2], float(args.alpha), float(args.beta),
                        float(args.gamma))

\* C8: no division by zero surfaces: with M = 0, games = 0, equal scores or no
\* matches at all, every operation returns without an error and every number
\* it returns is finite; compute_auto_elo gives every team 1500 when the
\* standard deviation of the scores is zero.
C8_DivisionsGuarded ==
    (pc = "done" /\ op \in LeagueOps) =>
        /\ ret.status = "ok"
        /\ (op = "compute_auto_elo" /\ ZeroDeviation) =>
              \A t \in DOMAIN ret.elo : ret.elo[t][2] = 1500
        /\ op \in {"calculate_base_goals", "estimate_draw_prob"} => IsFinite(ret.value)
        /\ op \in GoalModelOps =>
              /\ IsFinite(ret.model.base_lambda)
              /\ AllFinite(ret.model.attack)
              /\ AllFinite(ret.model.defense)

(***************************************************************************)
(* A simulated season: the RatingTable and the fixture step                *)
(***************************************************************************)
SeasonTeams == {"A", "B", "C"}

\* The standings the season starts from: nobody has played yet, or a leader,
\* a trailer and a mid-table team.
SeasonTableInputs ==
    { <<<<"A", [M |-> 0, Pts |-> 0, GD |-> 0, GF |-> 0, GA |-> 0, D |-> 0]>>,
        <<"B", [M |-> 0, Pts |-> 0, GD |-> 0, GF |-> 0, GA |-> 0, D |-> 0]>>,
        <<"C", [M |-> 0, Pts |-> 0, GD |-> 0, GF |-> 0, GA |-> 0, D |-> 0]>>>>,
      <<<<"A", [M |-> 2, Pts |-> 6, GD |-> 4, GF |-> 5, GA |-> 1, D |-> 0]>>,
        <<"B", [M |-> 2, Pts |-> 1, GD |-> -4, GF |-> 1, GA |-> 5, D |-> 1]>>,
        <<"C", [M |-> 2, Pts |-> 2, GD |-> 0, GF |-> 2, GA |-> 2, D |-> 2]>>>> }

SeasonScorelines == {<<2, 0>>, <<1, 1>>, <<0, 3>>}

SeasonKInputs == {I(20), I(32)}

\* Before the season the standings and K are given and the RatingTable is
\* still to be created.
InitSeason ==
    /\ pc = "create"
    /\ op = "season"
    /\ ret = NoRet
    /\ \E td \in SeasonTableInputs, K \in SeasonKInputs :
          args = [K |-> K, teams_data |-> td, initial |-> <<>>]
    /\ ratings = <<>>
    /\ prev = <<>>
    /\ last = <<>>
    /\ played = 0

\* The RatingTable is created by compute_auto_elo with its default weights.
CreateRatingTable ==
    /\ pc = "create"
    /\ \E elo \in {compute_auto_elo(args.teams_data, I(1), Norm(4, 5), Norm(1, 5), I(100))} :
          ratings' = [t \in SeasonTeams |->
                         I(elo[CHOOSE i \in DOMAIN elo : elo[i][1] = t][2])]
    /\ prev' = ratings'
    /\ args' = [args EXCEPT !.initial = ratings']
    /\ pc' = "season"
    /\ UNCHANGED <<op, ret, last, played>>

\* One fixture, applied as a single step: read the two ratings, classify the
\* scoreline, compute the update, write both ratings back.
PlayFixture ==
    /\ pc = "season"
    /\ played < MaxFixtures
    /\ \E a \in SeasonTeams, b \in SeasonTeams, g \in SeasonScorelines :
          /\ a # b
          /\ LET S   == get_match_result(g[1], g[2])
                 new == update_elo(ratings[a], ratings[b], S[1], S[2], args.K)
             IN  /\ ratings' = [ratings EXCEPT ![a] = new.elo_a, ![b] = new.elo_b]
                 /\ last' = [team_a |-> a, team_b |-> b,
                             goals_a |-> g[1], goals_b |-> g[2], S |-> S]
    /\ prev' = ratings
    /\ played' = played + 1
    /\ UNCHANGED <<pc, op, args, ret>>

NextSeason ==
    \/ CreateRatingTable
    \/ PlayFixture

SpecSeason == InitSeason /\ [][NextSeason]_vars

\* C10: after every fixture the ratings of the RatingTable sum to what they
\* summed to initially, and the ratings of the teams that did not play are
\* the ones they had before the fixture.
C10_RatingSumPreserved ==
    pc = "season" =>
        /\ SumOver(ratings, SeasonTeams) = SumOver(args.initial, SeasonTeams)
        /\ played > 0 =>
              \A t \in SeasonTeams \ {last.team_a, last.team_b} : ratings[t] = prev[t]

\* Several fixtures in, after a win of the lower-rated side, with both
\* players' ratings moved and off their initial values.
C10_Witness ==
    /\ pc = "season"
    /\ played >= 2
    /\ last.S = <<I(1), I(0)>>
    /\ Lt(prev[last.team_a], prev[last.team_b])
    /\ Lt(prev[last.team_a], ratings[last.team_a])
    /\ Lt(ratings[last.team_b], prev[last.team_b])
    /\ \A t \in SeasonTeams : prev[t] # args.initial[t]

====
